---- MODULE Spec2Model ----
(***************************************************************************)
(* Model of scraper.py: one script invocation ("run") connects to the     *)
(* PostgreSQL database, ensures the schema, fetches market movers and      *)
(* sectoral performance from the NSE client and upserts them, commits and  *)
(* closes.  The database is modelled with its transaction semantics: the   *)
(* statements of a run act on the transaction's view (work), a commit      *)
(* installs the view as the durable state (committed), a failed statement  *)
(* puts the transaction in the aborted state in which every later          *)
(* statement fails and a commit rolls back.                                *)
(***************************************************************************)
EXTENDS Integers, Sequences, FiniteSets, Bags, TLC

(* ---------------------------- bounds ---------------------------------- *)

\* Number of script invocations (cron runs) explored.
MaxRuns == 2

(* ----------------------- program constants ---------------------------- *)

\* top_gainers[:5], top_losers[:5]
TopN == 5

\* percent_change NUMERIC(5, 2): the absolute value must be below 10^3.
PctLimit == 1000

\* The tables of the schema, in the order setup_database creates them.
TableNames == <<"indices", "market_movers", "sectoral_performance", "volume_shockers">>

\* The columns of each table that a row written by the script carries
\* (id SERIAL is left out: no statement of the script reads it).
Columns(t) ==
    CASE t = "indices" -> {"name", "current_value", "change", "percent_change", "last_updated"}
      [] t = "market_movers" -> {"ticker", "price", "percent_change", "mover_type"}
      [] t = "sectoral_performance" -> {"sector_name", "percent_change", "last_updated"}
      [] t = "volume_shockers" -> {"ticker", "volume_change_percent", "last_updated"}

\* The four tables, one per persisted record shape.
Tables == {TableNames[k] : k \in 1..Len(TableNames)}

(* ------------------------ provider inputs ----------------------------- *)

\* Ticker symbols the provider may list, in ranking order.
Symbols == <<"T1", "T2", "T3", "T4", "T5", "T6", "T7">>

\* Sector names the provider may report, in the order of its dictionary.
SectorNames == <<"NIFTY IT", "NIFTY BANK">>

Min(a, b) == IF a < b THEN a ELSE b

\* One entry of get_top_gainers / get_top_losers at time t; a bad entry
\* carries a pChange the NUMERIC(5, 2) column cannot hold.
Item(sym, t, bad) ==
    [symbol |-> sym, lastPrice |-> t, pChange |-> IF bad THEN PctLimit ELSE t]

\* A provider list: n entries starting at rank a, the b-th of them bad
\* (b = 0: none).
MoverFeed(a, n, b, t) == [k \in 1..n |-> Item(Symbols[a + k - 1], t, k = b)]

GainerFeeds(t) ==
    {MoverFeed(a, n, b, t) : a \in {1, 2}, n \in {0, 2, TopN + 1}, b \in {0, 1, 2, TopN + 1}}

LoserFeeds(t) ==
    {MoverFeed(1, n, b, t) : n \in {0, 1, TopN + 1}, b \in {0, 1, TopN + 1}}

\* get_sectoral_indices(): a dictionary, modelled as the sequence of its
\* items in iteration order.
SectorFeeds(t) ==
    {[k \in 1..n |-> [sector |-> SectorNames[k],
                      data |-> [pChange |-> IF k = b THEN PctLimit ELSE t]]] :
        n \in 0..Len(SectorNames), b \in 0..Len(SectorNames)}

(* --------------------------- database --------------------------------- *)

\* A database state: a function from the existing tables to their rows
\* (a bag of records).
EmptyDB == [t \in {} |-> EmptyBag]

Rows(db, t) == IF t \in DOMAIN db THEN BagToSet(db[t]) ELSE {}

\* Variant: DROP TABLE IF EXISTS t; CREATE TABLE t
CreateTableDropFirst(db, t) == [u \in DOMAIN db \cup {t} |-> IF u = t THEN EmptyBag ELSE db[u]]

\* CREATE TABLE IF NOT EXISTS t
CreateTableIfNotExists(db, t) ==
    IF t \in DOMAIN db THEN db
    ELSE [u \in DOMAIN db \cup {t} |-> IF u = t THEN EmptyBag ELSE db[u]]

\* NUMERIC(5, 2) accepts the value (price NUMERIC(12, 2) and the VARCHAR
\* columns hold every value of the model's inputs).
NumericFits(v) == v < PctLimit /\ v > -PctLimit

\* Variant: the whole list, without the [:5] slice
NoSlice(list) == list

\* top_gainers[:5], top_losers[:5]
Top5(list) == SubSeq(list, 1, Min(TopN, Len(list)))

\* The natural key of a row of table t.
KeyOf(t, r) ==
    CASE t = "market_movers" -> <<r.ticker, r.mover_type>>
      [] t = "sectoral_performance" -> <<r.sector_name>>
      [] t = "indices" -> <<r.name>>
      [] t = "volume_shockers" -> <<r.ticker>>

\* Variant: ... ON CONFLICT (ticker, mover_type) DO NOTHING
UpsertMoverDoNothing(tbl, tk, pr, pct, mt) ==
    LET hit == {r \in BagToSet(tbl) : r.ticker = tk /\ r.mover_type = mt}
        new == [ticker |-> tk, price |-> pr, percent_change |-> pct, mover_type |-> mt]
    IN  IF hit = {} THEN tbl (+) SetToBag({new}) ELSE tbl

\* Variant: DELETE FROM market_movers WHERE mover_type = mt; INSERT ...
UpsertMoverReplaceType(tbl, tk, pr, pct, mt) ==
    LET new == [ticker |-> tk, price |-> pr, percent_change |-> pct, mover_type |-> mt]
        keep == {r \in BagToSet(tbl) : r.mover_type # mt}
    IN  [r \in keep |-> tbl[r]] (+) SetToBag({new})

\* INSERT INTO market_movers (ticker, price, percent_change, mover_type)
\* VALUES (tk, pr, pct, mt) ON CONFLICT (ticker, mover_type) DO UPDATE
\* SET price = EXCLUDED.price, percent_change = EXCLUDED.percent_change
UpsertMover(tbl, tk, pr, pct, mt) ==
    LET hit == {r \in BagToSet(tbl) : r.ticker = tk /\ r.mover_type = mt}
        new == [ticker |-> tk, price |-> pr, percent_change |-> pct, mover_type |-> mt]
    IN  IF hit = {} THEN tbl (+) SetToBag({new})
        ELSE LET old == CHOOSE r \in hit : TRUE
             IN  (tbl (-) SetToBag({old}))
                 (+) SetToBag({[old EXCEPT !.price = pr, !.percent_change = pct]})

\* INSERT INTO sectoral_performance (sector_name, percent_change)
\* VALUES (sn, pct) ON CONFLICT (sector_name) DO UPDATE
\* SET percent_change = EXCLUDED.percent_change, last_updated = CURRENT_TIMESTAMP
\* (now is CURRENT_TIMESTAMP, also the column's default on insert).
UpsertSector(tbl, sn, pct, now) ==
    LET hit == {r \in BagToSet(tbl) : r.sector_name = sn}
        new == [sector_name |-> sn, percent_change |-> pct, last_updated |-> now]
    IN  IF hit = {} THEN tbl (+) SetToBag({new})
        ELSE LET old == CHOOSE r \in hit : TRUE
             IN  (tbl (-) SetToBag({old}))
                 (+) SetToBag({[old EXCEPT !.percent_change = pct, !.last_updated = now]})

(* ----------------------------- state ---------------------------------- *)

VARIABLES
    pc,           \* position of the script
    run,          \* number of the current invocation, also its CURRENT_TIMESTAMP
    connection,   \* the value of `connection` in __main__: "None", "open", "closed"
    committed,    \* the durable state of the database
    work,         \* the state as seen by the connection's open transaction
    aborted,      \* the open transaction is in the failed state
    top_gainers,  \* nse.get_top_gainers()
    top_losers,   \* nse.get_top_losers()
    sector_data,  \* nse.get_sectoral_indices()
    i,            \* index of the loop (or of the CREATE TABLE statement)
    log,          \* the calls made on the connection in this run, in order
    nse_calls,    \* the provider methods called in this run
    errors,       \* the categories whose except block ran in this run
    critical      \* the except block of __main__ ran in this run

vars == <<pc, run, connection, committed, work, aborted, top_gainers, top_losers,
          sector_data, i, log, nse_calls, errors, critical>>

Entry(op, tbl, key, vals, ok) == [op |-> op, tbl |-> tbl, key |-> key, vals |-> vals, ok |-> ok]

Init ==
    /\ pc = "done"
    /\ run = 0
    /\ connection = "None"
    /\ committed = EmptyDB
    /\ work = EmptyDB
    /\ aborted = FALSE
    /\ top_gainers = <<>>
    /\ top_losers = <<>>
    /\ sector_data = <<>>
    /\ i = 1
    /\ log = <<>>
    /\ nse_calls = {}
    /\ errors = {}
    /\ critical = FALSE

(* ----------------------------- __main__ -------------------------------- *)

\* Variant: the script goes on without testing the connection
MainAlwaysProceeds(conn) == "setup"

\* if connection: ... (a run without a connection ends at once)
MainAfterConnect(conn) == IF conn # "None" THEN "setup" ELSE "done"

\* get_db_connection(): the connection, or None when psycopg2.connect raises.
get_db_connection(ok) == IF ok THEN "open" ELSE "None"

\* The script is started: nse = Nse(); connection = get_db_connection().
StartRun ==
    /\ pc = "done"
    /\ run < MaxRuns
    /\ run' = run + 1
    /\ \E ok \in BOOLEAN :
          /\ connection' = get_db_connection(ok)
          /\ pc' = MainAfterConnect(connection')
    /\ work' = committed
    /\ aborted' = FALSE
    /\ top_gainers' = <<>>
    /\ top_losers' = <<>>
    /\ sector_data' = <<>>
    /\ i' = 1
    /\ log' = <<>>
    /\ nse_calls' = {}
    /\ errors' = {}
    /\ critical' = FALSE
    /\ UNCHANGED committed

\* Variant: the close is not in a finally block, an exception skips it
ExceptSkipsClose == "done"

\* Where an exception that leaves setup_database or update_data lands:
\* except Exception: print(...); then the finally block.
ExceptLandsAt == "finally"

\* finally: connection.close().  The server discards the open transaction.
Close ==
    /\ pc = "finally"
    /\ connection' = "closed"
    /\ log' = Append(log, Entry("close", "", <<>>, <<>>, TRUE))
    /\ work' = committed
    /\ aborted' = FALSE
    /\ pc' = "done"
    /\ UNCHANGED <<run, committed, top_gainers, top_losers, sector_data, i,
                   nse_calls, errors, critical>>

(* -------------------------- setup_database ----------------------------- *)

\* cur.execute("CREATE TABLE IF NOT EXISTS ..."), the i-th of the four; the
\* server may refuse any statement (ok = FALSE), which raises.
CreateTable ==
    /\ pc = "setup"
    /\ \E ok \in BOOLEAN :
          /\ log' = Append(log, Entry("create", TableNames[i], <<>>, <<>>, ok))
          /\ IF ok
             THEN /\ work' = CreateTableIfNotExists(work, TableNames[i])
                  /\ IF i < Len(TableNames)
                     THEN i' = i + 1 /\ pc' = "setup"
                     ELSE i' = 1 /\ pc' = "setup_commit"
                  /\ UNCHANGED critical
             ELSE /\ critical' = TRUE
                  /\ pc' = ExceptLandsAt
                  /\ UNCHANGED <<work, i>>
    /\ UNCHANGED <<run, connection, committed, aborted, top_gainers, top_losers,
                   sector_data, nse_calls, errors>>

\* conn.commit() at the end of setup_database
SetupCommit ==
    /\ pc = "setup_commit"
    /\ \E ok \in BOOLEAN :
          /\ log' = Append(log, Entry("commit", "", <<>>, <<>>, ok))
          /\ IF ok
             THEN /\ committed' = work
                  /\ pc' = "gainers_fetch"
                  /\ UNCHANGED critical
             ELSE /\ critical' = TRUE
                  /\ pc' = ExceptLandsAt
                  /\ UNCHANGED committed
    /\ UNCHANGED <<run, connection, work, aborted, top_gainers, top_losers,
                   sector_data, i, nse_calls, errors>>

(* ---------------------------- update_data ------------------------------ *)

\* The server executes a statement writing percent_change = pct: it fails
\* when the transaction is already aborted or the value does not fit.
StatementOK(pct) == ~aborted /\ NumericFits(pct)

\* top_gainers = nse.get_top_gainers(); a raise lands in the except block
\* of the market-movers category.
FetchGainers ==
    /\ pc = "gainers_fetch"
    /\ nse_calls' = nse_calls \cup {"get_top_gainers"}
    /\ \/ /\ errors' = errors \cup {"Market Movers"}
          /\ pc' = "sectors_fetch"
          /\ UNCHANGED <<top_gainers, i>>
       \/ \E feed \in GainerFeeds(run) :
             /\ top_gainers' = feed
             /\ i' = 1
             /\ pc' = IF Len(Top5(feed)) = 0 THEN "losers_fetch" ELSE "gainers_loop"
             /\ UNCHANGED errors
    /\ UNCHANGED <<run, connection, committed, work, aborted, top_losers,
                   sector_data, log, critical>>

\* One iteration of: for gainer in top_gainers[:5]: cur.execute(INSERT ...)
UpsertGainer ==
    /\ pc = "gainers_loop"
    /\ LET gainer == Top5(top_gainers)[i]
           ok == StatementOK(gainer.pChange)
       IN  /\ log' = Append(log, Entry("upsert", "market_movers",
                                       <<gainer.symbol, "GAINER">>,
                                       <<gainer.lastPrice, gainer.pChange>>, ok))
           /\ IF ok
              THEN /\ work' = [work EXCEPT !["market_movers"] =
                                  UpsertMover(@, gainer.symbol, gainer.lastPrice,
                                              gainer.pChange, "GAINER")]
                   /\ IF i < Len(Top5(top_gainers))
                      THEN i' = i + 1 /\ pc' = "gainers_loop"
                      ELSE i' = 1 /\ pc' = "losers_fetch"
                   /\ UNCHANGED <<aborted, errors>>
              ELSE /\ aborted' = TRUE
                   /\ errors' = errors \cup {"Market Movers"}
                   /\ pc' = "sectors_fetch"
                   /\ UNCHANGED <<work, i>>
    /\ UNCHANGED <<run, connection, committed, top_gainers, top_losers, sector_data,
                   nse_calls, critical>>

\* top_losers = nse.get_top_losers()
FetchLosers ==
    /\ pc = "losers_fetch"
    /\ nse_calls' = nse_calls \cup {"get_top_losers"}
    /\ \/ /\ errors' = errors \cup {"Market Movers"}
          /\ pc' = "sectors_fetch"
          /\ UNCHANGED <<top_losers, i>>
       \/ \E feed \in LoserFeeds(run) :
             /\ top_losers' = feed
             /\ i' = 1
             /\ pc' = IF Len(Top5(feed)) = 0 THEN "sectors_fetch" ELSE "losers_loop"
             /\ UNCHANGED errors
    /\ UNCHANGED <<run, connection, committed, work, aborted, top_gainers,
                   sector_data, log, critical>>

\* One iteration of: for loser in top_losers[:5]: cur.execute(INSERT ...)
UpsertLoser ==
    /\ pc = "losers_loop"
    /\ LET loser == Top5(top_losers)[i]
           ok == StatementOK(loser.pChange)
       IN  /\ log' = Append(log, Entry("upsert", "market_movers",
                                       <<loser.symbol, "LOSER">>,
                                       <<loser.lastPrice, loser.pChange>>, ok))
           /\ IF ok
              THEN /\ work' = [work EXCEPT !["market_movers"] =
                                  UpsertMover(@, loser.symbol, loser.lastPrice,
                                              loser.pChange, "LOSER")]
                   /\ IF i < Len(Top5(top_losers))
                      THEN i' = i + 1 /\ pc' = "losers_loop"
                      ELSE i' = 1 /\ pc' = "sectors_fetch"
                   /\ UNCHANGED <<aborted, errors>>
              ELSE /\ aborted' = TRUE
                   /\ errors' = errors \cup {"Market Movers"}
                   /\ pc' = "sectors_fetch"
                   /\ UNCHANGED <<work, i>>
    /\ UNCHANGED <<run, connection, committed, top_gainers, top_losers, sector_data,
                   nse_calls, critical>>

\* sector_data = nse.get_sectoral_indices()
FetchSectors ==
    /\ pc = "sectors_fetch"
    /\ nse_calls' = nse_calls \cup {"get_sectoral_indices"}
    /\ \/ /\ errors' = errors \cup {"Sectoral Performance"}
          /\ pc' = "update_commit"
          /\ UNCHANGED <<sector_data, i>>
       \/ \E feed \in SectorFeeds(run) :
             /\ sector_data' = feed
             /\ i' = 1
             /\ pc' = IF Len(feed) = 0 THEN "update_commit" ELSE "sectors_loop"
             /\ UNCHANGED errors
    /\ UNCHANGED <<run, connection, committed, work, aborted, top_gainers,
                   top_losers, log, critical>>

\* One iteration of: for sector, data in sector_data.items(): cur.execute(...)
UpsertSectorRow ==
    /\ pc = "sectors_loop"
    /\ LET sector == sector_data[i].sector
           data == sector_data[i].data
           ok == StatementOK(data.pChange)
       IN  /\ log' = Append(log, Entry("upsert", "sectoral_performance",
                                       <<sector>>, <<data.pChange>>, ok))
           /\ IF ok
              THEN /\ work' = [work EXCEPT !["sectoral_performance"] =
                                  UpsertSector(@, sector, data.pChange, run)]
                   /\ IF i < Len(sector_data)
                      THEN i' = i + 1 /\ pc' = "sectors_loop"
                      ELSE i' = 1 /\ pc' = "update_commit"
                   /\ UNCHANGED <<aborted, errors>>
              ELSE /\ aborted' = TRUE
                   /\ errors' = errors \cup {"Sectoral Performance"}
                   /\ pc' = "update_commit"
                   /\ UNCHANGED <<work, i>>
    /\ UNCHANGED <<run, connection, committed, top_gainers, top_losers, sector_data,
                   nse_calls, critical>>

\* conn.commit() at the end of update_data.  The commit of an aborted
\* transaction returns normally and rolls the transaction back; a commit the
\* server cannot perform (ok = FALSE) raises.
UpdateCommit ==
    /\ pc = "update_commit"
    /\ \E ok \in BOOLEAN :
          /\ log' = Append(log, Entry("commit", "", <<>>, <<>>, ok))
          /\ IF ok
             THEN /\ committed' = IF aborted THEN committed ELSE work
                  /\ work' = committed'
                  /\ aborted' = FALSE
                  /\ pc' = "finally"
                  /\ UNCHANGED critical
             ELSE /\ critical' = TRUE
                  /\ pc' = ExceptLandsAt
                  /\ UNCHANGED <<committed, work, aborted>>
    /\ UNCHANGED <<run, connection, top_gainers, top_losers, sector_data, i,
                   nse_calls, errors>>

(* -------------------------- specification ------------------------------ *)

Next ==
    \/ StartRun
    \/ CreateTable
    \/ SetupCommit
    \/ FetchGainers
    \/ UpsertGainer
    \/ FetchLosers
    \/ UpsertLoser
    \/ FetchSectors
    \/ UpsertSectorRow
    \/ UpdateCommit
    \/ Close

Spec == Init /\ [][Next]_vars

(* ------------------------- derived notions ----------------------------- *)

\* The upserts of mover type mt, the commits and the closes in the log.
MoverUpserts(mt) ==
    SelectSeq(log, LAMBDA e : e.op = "upsert" /\ e.tbl = "market_movers" /\ e.key[2] = mt)

Commits == SelectSeq(log, LAMBDA e : e.op = "commit")

Closes == SelectSeq(log, LAMBDA e : e.op = "close")

\* update_data was entered in this run, and its commit returned normally.
UpdateEntered == "get_top_gainers" \in nse_calls

UpdateCommitted == Len(Commits) = 2 /\ Commits[2].ok

\* A statement of this run failed, so its transaction was aborted.
StatementFailed == \E k \in 1..Len(log) : log[k].op = "upsert" /\ ~log[k].ok

\* The category a provider method belongs to.
CategoryOfCall(m) ==
    CASE m = "get_top_gainers" -> "market_movers"
      [] m = "get_top_losers" -> "market_movers"
      [] m = "get_sectoral_indices" -> "sectoral_performance"

FetchedCategories == {CategoryOfCall(m) : m \in nse_calls}

MoverRow(it, mt) ==
    [ticker |-> it.symbol, price |-> it.lastPrice, percent_change |-> it.pChange,
     mover_type |-> mt]

SectorRow(it, now) ==
    [sector_name |-> it.sector, percent_change |-> it.data.pChange, last_updated |-> now]

\* The rows of table t with key k.
RowsWithKey(db, t, k) == {r \in Rows(db, t) : KeyOf(t, r) = k}

\* At most one row per natural key in every table of db.
UniqueKeys(db) ==
    \A t \in DOMAIN db : \A r \in BagToSet(db[t]) :
        /\ CopiesIn(r, db[t]) = 1
        /\ RowsWithKey(db, t, KeyOf(t, r)) = {r}

\* The values a row carries that an upsert sets.
ValuesOf(t, r) ==
    IF t = "market_movers" THEN <<r.price, r.percent_change>> ELSE <<r.percent_change>>

\* Every key upserted in this run carries, in db, the values of the most
\* recent successful upsert for that key.
CarriesLatest(db) ==
    \A k \in 1..Len(log) :
        (log[k].op = "upsert" /\ log[k].ok
           /\ ~\E m \in (k + 1)..Len(log) :
                  log[m].op = "upsert" /\ log[m].ok /\ log[m].key = log[k].key
                     /\ log[m].tbl = log[k].tbl)
        => \E r \in RowsWithKey(db, log[k].tbl, log[k].key) :
               ValuesOf(log[k].tbl, r) = log[k].vals

TypeOK ==
    /\ run \in 0..MaxRuns
    /\ connection \in {"None", "open", "closed"}
    /\ aborted \in BOOLEAN
    /\ \A t \in DOMAIN work : \A r \in Rows(work, t) : DOMAIN r = Columns(t)
    /\ DOMAIN committed \subseteq DOMAIN work

(* ------------------------------ claims --------------------------------- *)

\* C1: a failure in one data category is caught and skipped and the other
\* category still proceeds: when the market-movers block failed, the sector
\* rows the provider returned are in the database after the run's commit,
\* and when the sectoral block failed, the mover rows are.
C1_CategoryIsolation ==
    (pc = "done" /\ UpdateEntered /\ UpdateCommitted) =>
        /\ ("Market Movers" \in errors
              /\ \A k \in 1..Len(sector_data) : NumericFits(sector_data[k].data.pChange))
           => \A k \in 1..Len(sector_data) :
                  SectorRow(sector_data[k], run) \in Rows(committed, "sectoral_performance")
        /\ ("Sectoral Performance" \in errors /\ "Market Movers" \notin errors)
           => /\ \A k \in 1..Len(Top5(top_gainers)) :
                     MoverRow(top_gainers[k], "GAINER") \in Rows(committed, "market_movers")
              /\ \A k \in 1..Len(Top5(top_losers)) :
                     MoverRow(top_losers[k], "LOSER") \in Rows(committed, "market_movers")

\* The position of the script in its straight-line order, and the number of
\* steps a run can still take at most.
PcOrder ==
    CASE pc = "setup" -> 1
      [] pc = "setup_commit" -> 2
      [] pc = "gainers_fetch" -> 3
      [] pc = "gainers_loop" -> 4
      [] pc = "losers_fetch" -> 5
      [] pc = "losers_loop" -> 6
      [] pc = "sectors_fetch" -> 7
      [] pc = "sectors_loop" -> 8
      [] pc = "update_commit" -> 9
      [] pc = "finally" -> 10
      [] pc = "done" -> 11

StepsLeft == (11 - PcOrder) * (TopN + 1) + (TopN + 1 - i)

\* C2: in every run that obtained a connection the connection is eventually
\* closed, exactly once, and the close is the last call made on the
\* connection, whether setup_database and update_data return or raise.
\* Eventually: while the connection is open a step is always possible and
\* every step lowers the number of steps left, so the run reaches its end,
\* and at its end the connection is closed.
C2_ClosedOnceAtEnd ==
    /\ [](/\ Len(Closes) <= 1
          /\ (connection = "closed") => (pc = "done" /\ Len(Closes) = 1
                                           /\ log[Len(log)].op = "close")
          /\ (pc = "done" /\ run > 0 /\ connection # "None") => connection = "closed"
          /\ (connection = "open") => (pc # "done" /\ StepsLeft >= 0 /\ ENABLED Next))
    /\ [][(connection = "open") => (StepsLeft' < StepsLeft)]_vars

C2_Witness ==
    /\ pc = "done" /\ connection = "closed" /\ critical
    /\ Len(Commits) = 2 /\ ~Commits[2].ok

\* C3: when no connection is obtained the run ends at once: no table is
\* created, no category is fetched, no row is upserted, no commit and no
\* close is issued.
C3_NoConnectionAborts ==
    (connection = "None") =>
        /\ pc = "done"
        /\ log = <<>>
        /\ nse_calls = {}
        /\ work = committed

C3_Witness ==
    /\ run = 2 /\ connection = "None" /\ pc = "done"
    /\ Rows(committed, "market_movers") # {}

\* C4: a run with a connection and no failing call fetches the four data
\* categories and upserts each into its table, after the tables were created
\* and before the close.
C4_FourCategories ==
    (pc = "done" /\ connection = "closed" /\ ~critical /\ errors = {}) =>
        /\ FetchedCategories = Tables
        /\ \A k \in 1..Len(log) :
              log[k].op = "upsert" => (k > Len(TableNames) /\ k < Len(log))

C6_SetupIdempotent ==
    [][/\ (pc = "setup" /\ TableNames[i] \in DOMAIN work) => work' = work
       /\ (pc = "setup_commit" /\ DOMAIN committed = Tables)
          => committed' = committed]_vars

C6_Witness ==
    /\ run = 2 /\ pc = "gainers_fetch"
    /\ Rows(committed, "market_movers") # {}
    /\ Rows(committed, "sectoral_performance") # {}

\* C7: every row written by an upsert carries a last-updated timestamp.
C7_RowsHaveTimestamp ==
    \A t \in DOMAIN work : \A r \in Rows(work, t) : "last_updated" \in DOMAIN r

\* C8: no row is ever deleted from the database: every key stays, and a row
\* whose key is not upserted in the run keeps its values.
C8_NeverDeletes ==
    [][\A t \in DOMAIN committed :
          /\ t \in DOMAIN committed'
          /\ \A r \in Rows(committed, t) :
                \/ r \in Rows(committed', t)
                \/ /\ RowsWithKey(committed', t, KeyOf(t, r)) # {}
                   /\ \E k \in 1..Len(log') :
                         /\ log'[k].op = "upsert" /\ log'[k].ok
                         /\ log'[k].tbl = t /\ log'[k].key = KeyOf(t, r)]_vars

C8_Witness ==
    /\ run = 2 /\ pc = "done"
    /\ Cardinality({r \in Rows(committed, "market_movers") : r.mover_type = "GAINER"}) > TopN
    /\ \E r \in Rows(committed, "market_movers") :
          /\ r.mover_type = "GAINER" /\ r.price = 1
          /\ \A k \in 1..Len(top_gainers) : top_gainers[k].symbol # r.ticker

\* C9: update_data issues exactly one commit, after both categories were
\* attempted, also when categories fail; when get_top_losers raises after
\* the gainers were upserted, the gainer rows are in the database after the
\* commit.
C9_SingleCommitKeepsGainers ==
    (pc = "done" /\ UpdateEntered) =>
        /\ Len(Commits) = 2
        /\ log[Len(log) - 1].op = "commit"
        /\ "get_sectoral_indices" \in nse_calls
        /\ (/\ UpdateCommitted
            /\ "get_top_losers" \in nse_calls
            /\ "Market Movers" \in errors
            /\ Len(MoverUpserts("LOSER")) = 0)
           => \A k \in 1..Len(Top5(top_gainers)) :
                  MoverRow(top_gainers[k], "GAINER") \in Rows(committed, "market_movers")

\* C10: a run sends at most five GAINER and five LOSER upserts, for the
\* first entries of the provider's lists in order, and a loop that finishes
\* has written the first five entries, or all of them when there are fewer.
C10_TopFiveOnly ==
    LET gw == MoverUpserts("GAINER")
        lw == MoverUpserts("LOSER")
    IN  /\ Len(gw) <= TopN /\ Len(gw) <= Len(top_gainers)
        /\ \A k \in 1..Len(gw) : gw[k].key[1] = top_gainers[k].symbol
        /\ Len(lw) <= TopN /\ Len(lw) <= Len(top_losers)
        /\ \A k \in 1..Len(lw) : lw[k].key[1] = top_losers[k].symbol
        /\ ("get_top_losers" \in nse_calls)
           => (Len(gw) = Min(TopN, Len(top_gainers)) /\ \A k \in 1..Len(gw) : gw[k].ok)
        /\ ("get_sectoral_indices" \in nse_calls /\ "Market Movers" \notin errors)
           => (Len(lw) = Min(TopN, Len(top_losers)) /\ \A k \in 1..Len(lw) : lw[k].ok)

C10_Witness ==
    /\ pc = "done"
    /\ Len(top_gainers) > TopN /\ Len(MoverUpserts("GAINER")) = TopN
    /\ Len(top_losers) > TopN /\ Len(MoverUpserts("LOSER")) = TopN
    /\ "Market Movers" \notin errors

====
